---- MODULE Spec2Model ----
(***************************************************************************)
(* Model of wavereactor: the time-function Switch (src/time.rs) and the    *)
(* sample renderer / Player / Backend (src/player.rs, src/player/rodio.rs).*)
(*                                                                         *)
(* Time (f32 seconds) is modelled as an exact rational n/d, plus the two   *)
(* special values the code can produce or receive: NaN and +infinity.      *)
(* f32 rounding is not modelled; negative infinity and -0.0 are left out.  *)
(***************************************************************************)
EXTENDS Integers, Sequences, FiniteSets, TLC

VARIABLES
    sw,          \* the caller's Switch binding (moved-out after a failed insertion)
    sw_call,     \* observation of the last Switch operation and what it returned
    player,      \* the Player (channels, sample_rate), or not constructed
    backend,     \* RodioBackend: the sink's queue of renderers + calls of the last Player op
    handed,      \* the SampleSource as constructed by the last play()
    produced,    \* items the backend pulled from the renderer of the last play()
    ended,       \* the renderer of the last play() returned None to the backend
    last_op,     \* observation of the last Player operation
    idle_stops,  \* stop() calls made on an idle backend since the last new()/play()
    pc,          \* "ready", or "waiting" while the caller is blocked inside wait()
    sample_source, \* a SampleSource driven directly through next() and clone()
    src_made,    \* sample_source as play() constructed it
    src_items,   \* the items next() has returned on sample_source
    src_nones,   \* how many times next() has returned None on sample_source
    src_last,    \* observation of the last operation on sample_source
    fn_call      \* observation of the last evaluation of a combinator

vars == <<sw, sw_call, player, backend, handed, produced, ended, last_op,
          idle_stops, pc, sample_source, src_made, src_items, src_nones, src_last, fn_call>>

switchVars == <<sw, sw_call>>
playerVars == <<player, backend, handed, produced, ended, last_op, idle_stops, pc>>
sourceVars == <<sample_source, src_made, src_items, src_nones, src_last>>

----------------------------------------------------------------------------
(* Bounds *)

MaxThreshold == 2       \* Switch thresholds and query times are 0..MaxThreshold (and NaN, +inf)
MaxChannels == 2        \* channel lists have 0..MaxChannels channels
MaxRate == 2            \* set_sample_rate values are 0..MaxRate
MaxEndHalves == 2       \* play windows end at 0, 1/2, ..., MaxEndHalves/2 seconds
MaxItems == 8           \* the backend pulls at most MaxItems items from one renderer
MaxIdleStops == 2       \* consecutive stop() calls on an idle backend
MaxNones == 2           \* next() calls made on an exhausted renderer
MaxSpeedHalves == 4     \* with_speed factors are 0, 1/2, ..., MaxSpeedHalves/2

----------------------------------------------------------------------------
(* Time = f32 *)

RECURSIVE GCD(_, _)
GCD(a, b) == IF b = 0 THEN a ELSE GCD(b, a % b)

Abs(x) == IF x < 0 THEN -x ELSE x

NaN == [kind |-> "nan", n |-> 0, d |-> 1]
PosInf == [kind |-> "inf", n |-> 0, d |-> 1]

\* the rational n/d (d > 0) in lowest terms
Fin(n, d) ==
    LET g == GCD(Abs(n), d)
    IN  [kind |-> "fin", n |-> n \div g, d |-> d \div g]

is_nan(t) == t.kind = "nan"

\* f32 + f32
FAdd(a, b) ==
    IF is_nan(a) \/ is_nan(b) THEN NaN
    ELSE IF a.kind = "inf" \/ b.kind = "inf" THEN PosInf
    ELSE Fin(a.n * b.d + b.n * a.d, a.d * b.d)

\* (a as f32) / (b as f32) for unsigned integers a, b
FDivU32(a, b) ==
    IF b = 0 THEN (IF a = 0 THEN NaN ELSE PosInf)
    ELSE Fin(a, b)

\* f32::partial_cmp: "None" when either side is NaN
partial_cmp(a, b) ==
    IF is_nan(a) \/ is_nan(b) THEN "None"
    ELSE IF a.kind = "inf" THEN (IF b.kind = "inf" THEN "Equal" ELSE "Greater")
    ELSE IF b.kind = "inf" THEN "Less"
    ELSE IF a.n * b.d < b.n * a.d THEN "Less"
    ELSE IF a.n * b.d = b.n * a.d THEN "Equal"
    ELSE "Greater"

\* f32 * f32, for factors that are not negative when the other one is infinite
FMul(a, b) ==
    IF is_nan(a) \/ is_nan(b) THEN NaN
    ELSE IF a.kind = "inf" \/ b.kind = "inf"
    THEN (IF (a.kind = "fin" /\ a.n = 0) \/ (b.kind = "fin" /\ b.n = 0)
          THEN NaN ELSE PosInf)
    ELSE Fin(a.n * b.n, a.d * b.d)

\* a <= b and a >= b on f32 (false when either side is NaN)
FLe(a, b) == partial_cmp(a, b) \in {"Less", "Equal"}
FGe(a, b) == partial_cmp(a, b) \in {"Greater", "Equal"}

----------------------------------------------------------------------------
(* Switch *)

Segments == {"X", "Y", "Z"}

SwitchTimes == {Fin(n, 1) : n \in 0..MaxThreshold} \cup {PosInf, NaN}

\* times at(t) is queried at: the thresholds and the points between them
QueryTimes == {Fin(h, 2) : h \in 0..(2 * MaxThreshold + 1)} \cup {PosInf, NaN}

\* the caller's binding after the Switch was moved into a call that did not return it
Dropped == [live |-> FALSE, initial_step |-> "X", switching_steps |-> <<>>]

Switch_new(initial_step) ==
    [live |-> TRUE, initial_step |-> initial_step, switching_steps |-> <<>>]

\* slice::binary_search_by with the comparator cmp(element); indices are 0-based
RECURSIVE BinarySearchBy(_, _, _, _)
BinarySearchBy(steps, seconds, left, right) ==
    IF left < right
    THEN LET size == right - left
             mid == left + size \div 2
             pc0 == partial_cmp(steps[mid + 1][1], seconds)
             cmp == IF pc0 = "None" THEN "Greater" ELSE pc0
         IN  IF cmp = "Equal" THEN [ok |-> TRUE, idx |-> mid]
             ELSE IF cmp = "Less" THEN BinarySearchBy(steps, seconds, mid + 1, right)
             ELSE BinarySearchBy(steps, seconds, left, mid)
    ELSE [ok |-> FALSE, idx |-> left]

Switch_search(self, seconds) ==
    BinarySearchBy(self.switching_steps, seconds, 0, Len(self.switching_steps))

VecInsert_Push(v, index, e) == Append(v, e)

\* Vec::insert(index, element), index 0-based
VecInsert(v, index, e) ==
    SubSeq(v, 1, index) \o <<e>> \o SubSeq(v, index + 1, Len(v))

\* The value try_step_at returns, with what the call did on the way:
\*   result/value  the Result variant and the value an Err carries
\*   ret           the Switch handed back to the caller (Dropped on Err: self is
\*                 taken by value and the error does not carry it)
\*   searched      whether the threshold set was searched
\*   steps_at_ret  self.switching_steps at the return statement
Switch_try_step_at_NoDupCheck(self, at_seconds, after) ==
    IF is_nan(at_seconds)
    THEN [result |-> "Nan", value |-> NaN, ret |-> Dropped, searched |-> FALSE,
          steps_at_ret |-> self.switching_steps]
    ELSE LET r == Switch_search(self, at_seconds)
             ins == VecInsert(self.switching_steps, r.idx, <<at_seconds, after>>)
         IN  [result |-> "Ok", value |-> at_seconds,
              ret |-> [self EXCEPT !.switching_steps = ins],
              searched |-> TRUE, steps_at_ret |-> ins]

Switch_try_step_at_NoNanCheck(self, at_seconds, after) ==
    LET r == Switch_search(self, at_seconds)
    IN  IF r.ok
        THEN [result |-> "Duplicated", value |-> at_seconds, ret |-> Dropped,
              searched |-> TRUE, steps_at_ret |-> self.switching_steps]
        ELSE LET ins == VecInsert(self.switching_steps, r.idx, <<at_seconds, after>>)
             IN  [result |-> "Ok", value |-> at_seconds,
                  ret |-> [self EXCEPT !.switching_steps = ins],
                  searched |-> TRUE, steps_at_ret |-> ins]

Switch_try_step_at_DupAsNan(self, at_seconds, after) ==
    IF is_nan(at_seconds)
    THEN [result |-> "Nan", value |-> NaN, ret |-> Dropped, searched |-> FALSE,
          steps_at_ret |-> self.switching_steps]
    ELSE LET r == Switch_search(self, at_seconds)
         IN  IF r.ok
             THEN [result |-> "Nan", value |-> NaN, ret |-> Dropped,
                   searched |-> TRUE, steps_at_ret |-> self.switching_steps]
             ELSE LET ins == VecInsert(self.switching_steps, r.idx, <<at_seconds, after>>)
                  IN  [result |-> "Ok", value |-> at_seconds,
                       ret |-> [self EXCEPT !.switching_steps = ins],
                       searched |-> TRUE, steps_at_ret |-> ins]

Switch_try_step_at(self, at_seconds, after) ==
    IF is_nan(at_seconds)
    THEN [result |-> "Nan", value |-> NaN, ret |-> Dropped, searched |-> FALSE,
          steps_at_ret |-> self.switching_steps]
    ELSE LET r == Switch_search(self, at_seconds)
         IN  IF r.ok
             THEN [result |-> "Duplicated", value |-> at_seconds, ret |-> Dropped,
                   searched |-> TRUE, steps_at_ret |-> self.switching_steps]
             ELSE LET ins == VecInsert(self.switching_steps, r.idx, <<at_seconds, after>>)
                  IN  [result |-> "Ok", value |-> at_seconds,
                       ret |-> [self EXCEPT !.switching_steps = ins],
                       searched |-> TRUE, steps_at_ret |-> ins]

\* <Switch as TimeFn>::at: the segment evaluated and the time it is evaluated at
Switch_at_OffByOne(self, seconds) ==
    LET r == Switch_search(self, seconds)
    IN  IF r.idx = 0
        THEN [seg |-> self.initial_step, t |-> seconds]
        ELSE [seg |-> self.switching_steps[r.idx][2], t |-> seconds]

Switch_at(self, seconds) ==
    LET r == Switch_search(self, seconds)
    IN  IF ~r.ok /\ r.idx = 0
        THEN [seg |-> self.initial_step, t |-> seconds]
        ELSE IF ~r.ok
        THEN [seg |-> self.switching_steps[r.idx][2], t |-> seconds]
        ELSE [seg |-> self.switching_steps[r.idx + 1][2], t |-> seconds]

NoCall == [op |-> "none", at_seconds |-> NaN, after |-> "X", pre |-> Dropped,
           result |-> "none", value |-> NaN, searched |-> FALSE,
           steps_at_ret |-> <<>>, out |-> [seg |-> "X", t |-> NaN]]

\* Switch::new(initial_step): the caller binds a fresh Switch
SwitchNew(initial_step) ==
    /\ sw_call.result # "panic"
    /\ sw' = Switch_new(initial_step)
    /\ sw_call' = [NoCall EXCEPT !.op = "new", !.after = initial_step]
    /\ UNCHANGED <<playerVars, sourceVars, fn_call>>

\* sw.try_step_at(at_seconds, after): sw is moved into the call
SwitchTryStepAt(at_seconds, after) ==
    /\ sw.live
    /\ LET r == Switch_try_step_at(sw, at_seconds, after)
       IN  /\ sw' = r.ret
           /\ sw_call' = [NoCall EXCEPT !.op = "try_step_at", !.at_seconds = at_seconds,
                             !.after = after, !.pre = sw, !.result = r.result,
                             !.value = r.value, !.searched = r.searched,
                             !.steps_at_ret = r.steps_at_ret]
    /\ UNCHANGED <<playerVars, sourceVars, fn_call>>

\* sw.step_at(at_seconds, after): try_step_at(..).expect(..), a panic on Err
SwitchStepAt(at_seconds, after) ==
    /\ sw.live
    /\ LET r == Switch_try_step_at(sw, at_seconds, after)
       IN  /\ sw' = r.ret
           /\ sw_call' = [NoCall EXCEPT !.op = "step_at", !.at_seconds = at_seconds,
                             !.after = after, !.pre = sw,
                             !.result = IF r.result = "Ok" THEN "Ok" ELSE "panic",
                             !.value = r.value, !.searched = r.searched,
                             !.steps_at_ret = r.steps_at_ret]
    /\ UNCHANGED <<playerVars, sourceVars, fn_call>>

\* sw.at(seconds)
SwitchAt(seconds) ==
    /\ sw.live
    /\ sw' = sw
    /\ sw_call' = [NoCall EXCEPT !.op = "at", !.at_seconds = seconds, !.pre = sw,
                      !.result = "Ok", !.out = Switch_at(sw, seconds)]
    /\ UNCHANGED <<playerVars, sourceVars, fn_call>>

----------------------------------------------------------------------------
(* TimeFn leaves used as channels *)

ChannelFns == {"Seconds", "Const9"}

\* <Seconds as TimeFn>::at and <Const<A> as TimeFn>::at (Const::new(9.0))
TimeFn_at(f, seconds) ==
    IF f = "Seconds" THEN seconds ELSE Fin(9, 1)

\* one item of the stream: channels[c].at(curr_time), with the call that made it
Sample(f, seconds) == [fn |-> f, t |-> seconds, value |-> TimeFn_at(f, seconds)]

----------------------------------------------------------------------------
(* Combinators: a time function is a term <<"Leaf", name>>,                 *)
(* <<"Compose", outer, inner>> or <<"WithSpeed", inner, speed>>             *)

Leaf(name) == <<"Leaf", name>>

\* TimeFn::compose and TimeFn::with_speed
compose(self, inner) == <<"Compose", self, inner>>
with_speed(self, speed) == <<"WithSpeed", self, speed>>

\* the time WithSpeed::at evaluates its inner function at
WithSpeed_time_Added(seconds, speed) == FAdd(seconds, speed)

WithSpeed_time(seconds, speed) == FMul(seconds, speed)

\* <Compose as TimeFn>::at, <WithSpeed as TimeFn>::at and the leaves
RECURSIVE At(_, _)
At(f, seconds) ==
    IF f[1] = "Compose" THEN At(f[2], At(f[3], seconds))
    ELSE IF f[1] = "WithSpeed" THEN At(f[2], WithSpeed_time(seconds, f[3]))
    ELSE TimeFn_at(f[2], seconds)

\* <StepAt as TimeFn>::at: the segment evaluated and the time it is evaluated at
StepAt_at_Strict(before, at_seconds, after, seconds) ==
    IF partial_cmp(seconds, at_seconds) = "Greater"
    THEN [seg |-> after, t |-> seconds]
    ELSE [seg |-> before, t |-> seconds]

StepAt_at(before, at_seconds, after, seconds) ==
    IF FGe(seconds, at_seconds)
    THEN [seg |-> after, t |-> seconds]
    ELSE [seg |-> before, t |-> seconds]

Speeds == {Fin(h, 2) : h \in 0..MaxSpeedHalves}

AlgebraTimes == QueryTimes \cup {Fin(-1, 2), Fin(-1, 1)}

\* the functions combined: the leaves, and one level of combinators over them
OuterFns ==
    {Leaf(l) : l \in ChannelFns}
        \cup {with_speed(Leaf("Seconds"), Fin(2, 1)),
              compose(Leaf("Seconds"), Leaf("Const9"))}

InnerFns ==
    {Leaf(l) : l \in ChannelFns} \cup {with_speed(Leaf("Seconds"), Fin(2, 1))}

NoFnCall == [op |-> "none", f |-> Leaf("Seconds"), g |-> Leaf("Seconds"),
             speed |-> NaN, t |-> NaN, out |-> NaN]

\* f.compose(g).at(t)
EvalCompose(f, g, t) ==
    /\ fn_call' = [NoFnCall EXCEPT !.op = "compose", !.f = f, !.g = g, !.t = t,
                                   !.out = At(compose(f, g), t)]
    /\ UNCHANGED <<switchVars, playerVars, sourceVars>>

\* f.with_speed(speed).at(t)
EvalWithSpeed(f, speed, t) ==
    /\ fn_call' = [NoFnCall EXCEPT !.op = "with_speed", !.f = f, !.speed = speed,
                                   !.t = t, !.out = At(with_speed(f, speed), t)]
    /\ UNCHANGED <<switchVars, playerVars, sourceVars>>

AlgebraNext ==
    \/ \E f \in OuterFns, g \in InnerFns, t \in AlgebraTimes : EvalCompose(f, g, t)
    \/ \E f \in OuterFns, v \in Speeds, t \in AlgebraTimes : EvalWithSpeed(f, v, t)

----------------------------------------------------------------------------
(* SampleSource *)

\* what next() leaves of the renderer after returning an item
Advanced(self) ==
    LET c1 == self.curr_channel + 1
    IN  IF c1 >= Len(self.channels)
        THEN LET s1 == self.second_sample + 1
             IN  IF s1 >= self.sample_rate
                 THEN [self EXCEPT !.curr_channel = 0,
                                   !.second_sample = s1,
                                   !.sample_rate = 0,
                                   !.start = FAdd(self.start, Fin(1, 1))]
                 ELSE [self EXCEPT !.curr_channel = 0, !.second_sample = s1]
        ELSE [self EXCEPT !.curr_channel = c1]

SampleSource_next_NoEndTest(self) ==
    LET curr_time == FAdd(self.start, FDivU32(self.second_sample, self.sample_rate))
    IN  [some |-> TRUE,
         data |-> Sample(self.channels[self.curr_channel + 1], curr_time),
         self |-> Advanced(self)]

SampleSource_next_NoneRewinds(self) ==
    LET curr_time == FAdd(self.start, FDivU32(self.second_sample, self.sample_rate))
    IN  IF FLe(curr_time, self.end)
        THEN [some |-> TRUE,
              data |-> Sample(self.channels[self.curr_channel + 1], curr_time),
              self |-> Advanced(self)]
        ELSE [some |-> FALSE, data |-> Sample("Const9", NaN),
              self |-> [self EXCEPT !.second_sample = 0]]

SampleSource_next_AdvanceEachItem(self) ==
    LET curr_time == FAdd(self.start, FDivU32(self.second_sample, self.sample_rate))
    IN  IF FLe(curr_time, self.end)
        THEN [some |-> TRUE,
              data |-> Sample(self.channels[self.curr_channel + 1], curr_time),
              self |-> [self EXCEPT
                           !.curr_channel = (self.curr_channel + 1) % Len(self.channels),
                           !.second_sample = self.second_sample + 1]]
        ELSE [some |-> FALSE, data |-> Sample("Const9", NaN), self |-> self]

\* <SampleSource as Iterator>::next: [some, data, self] with self the renderer
\* after the call
SampleSource_next(self) ==
    LET offset == FDivU32(self.second_sample, self.sample_rate)
        curr_time == FAdd(self.start, offset)
    IN  IF FLe(curr_time, self.end)
        THEN LET data == Sample(self.channels[self.curr_channel + 1], curr_time)
                 c1 == self.curr_channel + 1
             IN  IF c1 >= Len(self.channels)
                 THEN LET s1 == self.second_sample + 1
                      IN  IF s1 >= self.sample_rate
                          THEN [some |-> TRUE, data |-> data,
                                self |-> [self EXCEPT !.curr_channel = 0,
                                                      !.second_sample = s1,
                                                      !.sample_rate = 0,
                                                      !.start = FAdd(self.start, Fin(1, 1))]]
                          ELSE [some |-> TRUE, data |-> data,
                                self |-> [self EXCEPT !.curr_channel = 0,
                                                      !.second_sample = s1]]
                 ELSE [some |-> TRUE, data |-> data,
                       self |-> [self EXCEPT !.curr_channel = c1]]
        ELSE [some |-> FALSE, data |-> Sample("Const9", NaN), self |-> self]

\* <SampleSource as Clone>::clone
SampleSource_clone(self) ==
    [channels |-> self.channels,
     curr_channel |-> self.curr_channel,
     sample_rate |-> self.sample_rate,
     second_sample |-> 0,
     start |-> self.start,
     end |-> self.end]

\* <SampleSource as rodio::Source>::channels and ::sample_rate
Source_channels(self) == Len(self.channels)
Source_sample_rate(self) == self.sample_rate

\* the first n items of the stream a renderer yields (all of them if it ends before)
RECURSIVE Drain(_, _)
Drain(src, n) ==
    IF n = 0 THEN <<>>
    ELSE LET r == SampleSource_next(src)
         IN  IF r.some THEN <<r.data>> \o Drain(r.self, n - 1) ELSE <<>>

----------------------------------------------------------------------------
(* RodioBackend: the sink is a queue of renderers, the head being played *)

Sink_clear(b) == [b EXCEPT !.queue = <<>>]
Sink_append(b, source) == [b EXCEPT !.queue = Append(@, source)]
Sink_stop(b) == [b EXCEPT !.queue = <<>>]

\* calls records the Backend calls of one Player operation, each with the number
\* of renderers the sink held when the call was issued
Called(b, name) ==
    [b EXCEPT !.calls = Append(@, [call |-> name, queued |-> Len(b.queue)])]

RodioBackend_play(b, source) == Sink_append(Sink_clear(Called(b, "play")), source)

RodioBackend_stop(b) == Sink_stop(Called(b, "stop"))

RodioBackend_wait(b) == Called(b, "wait")

\* a Player operation starts with an empty record of Backend calls
OpStart(b) == [b EXCEPT !.calls = <<>>]

----------------------------------------------------------------------------
(* Player *)

DefaultSampleRate == 48000

NoPlayer == [live |-> FALSE, channels |-> <<>>, sample_rate |-> 0]

NoSource == [channels |-> <<>>, curr_channel |-> 0, sample_rate |-> 0,
             second_sample |-> 0, start |-> NaN, end |-> NaN]

\* channel collections given to Player::new: the empty one, and for each length
\* the two lists alternating Seconds and Const9
Alternating(n, first) ==
    [i \in 1..n |-> IF i % 2 = 1 THEN first
                               ELSE CHOOSE f \in ChannelFns : f # first]

ChannelLists == {Alternating(n, f) : n \in 0..MaxChannels, f \in ChannelFns}

SampleRates == 0..MaxRate

PlayStarts == {Fin(0, 1), Fin(1, 2)}
PlayEnds == {Fin(h, 2) : h \in 0..MaxEndHalves}

NoOp == [name |-> "none", result |-> "none", channels |-> <<>>, value |-> 0,
         start |-> NaN, end |-> NaN, idle_stops |-> 0]

\* Player::new: [result, player]
Player_new_NoCheck(channels) ==
    [result |-> "Ok",
     player |-> [live |-> TRUE, channels |-> channels,
                 sample_rate |-> DefaultSampleRate]]

Player_new(channels) ==
    IF Len(channels) = 0
    THEN [result |-> "NoChannels", player |-> NoPlayer]
    ELSE [result |-> "Ok",
          player |-> [live |-> TRUE, channels |-> channels,
                      sample_rate |-> DefaultSampleRate]]

\* the renderer play(start, end) builds
NewSource(self, start, end) ==
    [channels |-> self.channels, curr_channel |-> 0,
     sample_rate |-> self.sample_rate, second_sample |-> 0,
     start |-> start, end |-> end]

\* Player::new(channels, backend)
New(channels) ==
    /\ ~player.live
    /\ pc = "ready"
    /\ LET r == Player_new(channels)
       IN  /\ player' = r.player
           /\ last_op' = [NoOp EXCEPT !.name = "new", !.result = r.result,
                                      !.channels = channels]
    /\ idle_stops' = 0
    /\ UNCHANGED <<backend, handed, produced, ended, pc>>
    /\ UNCHANGED <<switchVars, sourceVars, fn_call>>

\* Player::set_sample_rate(value)
SetSampleRate_Retroactive(value) ==
    /\ player.live
    /\ pc = "ready"
    /\ player' = [player EXCEPT !.sample_rate = value]
    /\ backend' = [backend EXCEPT !.queue =
                      [i \in DOMAIN backend.queue |->
                          [backend.queue[i] EXCEPT !.sample_rate = value]]]
    /\ last_op' = [NoOp EXCEPT !.name = "set_sample_rate", !.value = value]
    /\ UNCHANGED <<handed, produced, ended, idle_stops, pc>>
    /\ UNCHANGED <<switchVars, sourceVars, fn_call>>

SetSampleRate(value) ==
    /\ player.live
    /\ pc = "ready"
    /\ player' = [player EXCEPT !.sample_rate = value]
    /\ last_op' = [NoOp EXCEPT !.name = "set_sample_rate", !.value = value]
    /\ UNCHANGED <<backend, handed, produced, ended, idle_stops, pc>>
    /\ UNCHANGED <<switchVars, sourceVars, fn_call>>

\* Player::play(start, end)
Play_NoStop(start, end) ==
    /\ player.live
    /\ pc = "ready"
    /\ LET source == NewSource(player, start, end)
       IN  /\ backend' = RodioBackend_play(OpStart(backend), source)
           /\ handed' = source
    /\ produced' = <<>>
    /\ ended' = FALSE
    /\ last_op' = [NoOp EXCEPT !.name = "play", !.start = start, !.end = end,
                               !.idle_stops = idle_stops]
    /\ idle_stops' = 0
    /\ UNCHANGED <<player, pc>>
    /\ UNCHANGED <<switchVars, sourceVars, fn_call>>

Play(start, end) ==
    /\ player.live
    /\ pc = "ready"
    /\ LET source == NewSource(player, start, end)
       IN  /\ backend' = RodioBackend_play(RodioBackend_stop(OpStart(backend)), source)
           /\ handed' = source
    /\ produced' = <<>>
    /\ ended' = FALSE
    /\ last_op' = [NoOp EXCEPT !.name = "play", !.start = start, !.end = end,
                               !.idle_stops = idle_stops]
    /\ idle_stops' = 0
    /\ UNCHANGED <<player, pc>>
    /\ UNCHANGED <<switchVars, sourceVars, fn_call>>

\* Player::stop()
Stop_ResetsRate ==
    /\ player.live
    /\ pc = "ready"
    /\ backend.queue = <<>> => idle_stops < MaxIdleStops
    /\ backend' = RodioBackend_stop(OpStart(backend))
    /\ player' = [player EXCEPT !.sample_rate = DefaultSampleRate]
    /\ idle_stops' = IF backend.queue = <<>> THEN idle_stops + 1 ELSE idle_stops
    /\ last_op' = [NoOp EXCEPT !.name = "stop"]
    /\ UNCHANGED <<handed, produced, ended, pc>>
    /\ UNCHANGED <<switchVars, sourceVars, fn_call>>

Stop ==
    /\ player.live
    /\ pc = "ready"
    /\ backend.queue = <<>> => idle_stops < MaxIdleStops
    /\ backend' = RodioBackend_stop(OpStart(backend))
    /\ idle_stops' = IF backend.queue = <<>> THEN idle_stops + 1 ELSE idle_stops
    /\ last_op' = [NoOp EXCEPT !.name = "stop"]
    /\ UNCHANGED <<player, handed, produced, ended, pc>>
    /\ UNCHANGED <<switchVars, sourceVars, fn_call>>

\* Player::wait(): the call; the caller blocks in sink.sleep_until_end()
WaitCall ==
    /\ player.live
    /\ pc = "ready"
    /\ last_op.name # "wait"
    /\ backend' = RodioBackend_wait(OpStart(backend))
    /\ pc' = "waiting"
    /\ last_op' = [NoOp EXCEPT !.name = "wait", !.result = "blocked"]
    /\ UNCHANGED <<player, handed, produced, ended, idle_stops>>
    /\ UNCHANGED <<switchVars, sourceVars, fn_call>>

\* Player::wait() returns once the sink has nothing left to play
WaitReturn ==
    /\ pc = "waiting"
    /\ backend.queue = <<>>
    /\ pc' = "ready"
    /\ last_op' = [last_op EXCEPT !.result = "returned"]
    /\ UNCHANGED <<player, backend, handed, produced, ended, idle_stops>>
    /\ UNCHANGED <<switchVars, sourceVars, fn_call>>

\* the playback thread pulls the next item from the renderer at the head of the sink
Consume ==
    /\ backend.queue # <<>>
    /\ Len(produced) < MaxItems \/ ~SampleSource_next(Head(backend.queue)).some
    /\ LET r == SampleSource_next(Head(backend.queue))
       IN  IF r.some
           THEN /\ backend' = [backend EXCEPT !.queue = <<r.self>> \o Tail(@)]
                /\ produced' = Append(produced, r.data)
                /\ ended' = ended
           ELSE /\ backend' = [backend EXCEPT !.queue = Tail(@)]
                /\ produced' = produced
                /\ ended' = TRUE
    /\ UNCHANGED <<player, handed, last_op, idle_stops, pc>>
    /\ UNCHANGED <<switchVars, sourceVars, fn_call>>

----------------------------------------------------------------------------
(* A renderer driven directly: play() builds it, its owner calls next() and clone() *)

NoSrcOp == [op |-> "none", before |-> NoSource, some |-> FALSE,
            data |-> Sample("Const9", NaN), copy |-> NoSource]

\* the rates a Player can hold when play() is called
PlayerRates == SampleRates \cup {DefaultSampleRate}

\* Player::play builds the renderer from the Player's channels and rate
SrcPlay(channels, rate, start, end) ==
    /\ Len(channels) >= 1
    /\ LET source == NewSource([live |-> TRUE, channels |-> channels,
                                sample_rate |-> rate], start, end)
       IN  /\ sample_source' = source
           /\ src_made' = source
    /\ src_items' = <<>>
    /\ src_nones' = 0
    /\ src_last' = [NoSrcOp EXCEPT !.op = "play"]
    /\ UNCHANGED <<switchVars, playerVars, fn_call>>

\* sample_source.next()
SrcNext ==
    /\ src_last.op # "none"
    /\ LET r == SampleSource_next(sample_source)
       IN  /\ IF r.some THEN Len(src_items) < MaxItems ELSE src_nones < MaxNones
           /\ sample_source' = r.self
           /\ src_items' = IF r.some THEN Append(src_items, r.data) ELSE src_items
           /\ src_nones' = IF r.some THEN src_nones ELSE src_nones + 1
           /\ src_last' = [NoSrcOp EXCEPT !.op = "next", !.before = sample_source,
                                          !.some = r.some, !.data = r.data]
    /\ UNCHANGED src_made
    /\ UNCHANGED <<switchVars, playerVars, fn_call>>

\* sample_source.clone(); the copy is looked at and dropped
SrcClone ==
    /\ src_last.op # "none"
    /\ src_last' = [NoSrcOp EXCEPT !.op = "clone", !.before = sample_source,
                                   !.copy = SampleSource_clone(sample_source)]
    /\ UNCHANGED <<sample_source, src_made, src_items, src_nones>>
    /\ UNCHANGED <<switchVars, playerVars, fn_call>>

SourceNext ==
    \/ \E c \in ChannelLists, r \in PlayerRates, s \in PlayStarts, e \in PlayEnds :
          SrcPlay(c, r, s, e)
    \/ SrcNext
    \/ SrcClone

----------------------------------------------------------------------------
(* Specifications *)

Init ==
    /\ sw = Switch_new("X")
    /\ sw_call = NoCall
    /\ player = NoPlayer
    /\ backend = [queue |-> <<>>, calls |-> <<>>]
    /\ handed = NoSource
    /\ produced = <<>>
    /\ ended = FALSE
    /\ last_op = NoOp
    /\ idle_stops = 0
    /\ pc = "ready"
    /\ sample_source = NoSource
    /\ src_made = NoSource
    /\ src_items = <<>>
    /\ src_nones = 0
    /\ src_last = NoSrcOp
    /\ fn_call = NoFnCall

Next ==
    \/ \E c \in ChannelLists : New(c)
    \/ \E v \in SampleRates : SetSampleRate(v)
    \/ \E s \in PlayStarts, e \in PlayEnds : Play(s, e)
    \/ Stop
    \/ WaitCall
    \/ WaitReturn
    \/ Consume

Spec == Init /\ [][Next]_vars

\* when the playback thread can pull: ENABLED <<Consume>>_vars as a state predicate
ConsumeEnabled ==
    /\ backend.queue # <<>>
    /\ Len(produced) < MaxItems \/ ~SampleSource_next(Head(backend.queue)).some

\* the playback thread keeps pulling while the sink has a renderer, and a caller
\* blocked in wait() is released once the sink is empty.  The second conjunct is
\* WF_vars(Consume) with its ENABLED written as ConsumeEnabled.
FairSpec ==
    /\ Spec
    /\ ([]<>(~ConsumeEnabled) \/ []<><<Consume>>_vars)
    /\ WF_vars(WaitReturn)

SourceSpec == Init /\ [][SourceNext]_vars

AlgebraSpec == Init /\ [][AlgebraNext]_vars

SwitchNext ==
    \/ \E x \in Segments : SwitchNew(x)
    \/ \E t \in SwitchTimes, x \in Segments : SwitchTryStepAt(t, x)
    \/ \E t \in SwitchTimes, x \in Segments : SwitchStepAt(t, x)
    \/ \E t \in QueryTimes : SwitchAt(t)

SwitchSpec == Init /\ [][SwitchNext]_vars

----------------------------------------------------------------------------
(* Claims about the renderer and the Player, checked under Spec *)

\* (end - start) * sample_rate of a renderer, as numerator and denominator
WindowNum(src) == (src.end.n * src.start.d - src.start.n * src.end.d) * src.sample_rate
WindowDen(src) == src.end.d * src.start.d

\* C1: a renderer with N >= 1 channels, rate R >= 1 and a window of k = (end-start)*R
\* whole steps, k >= 0, yields exactly N*(k+1) items before None, item j being
\* channels[j mod N].at(start + (j div N)/R).
C1_FullWindowSequence ==
    (/\ ended
     /\ Len(handed.channels) >= 1
     /\ handed.sample_rate >= 1
     /\ WindowNum(handed) >= 0
     /\ WindowNum(handed) % WindowDen(handed) = 0)
    => LET N == Len(handed.channels)
           R == handed.sample_rate
           k == WindowNum(handed) \div WindowDen(handed)
       IN  /\ Len(produced) = N * (k + 1)
           /\ \A j \in 0..(Len(produced) - 1) :
                 produced[j + 1] =
                     Sample(handed.channels[(j % N) + 1],
                            FAdd(handed.start, Fin(j \div N, R)))

\* C7: Player::new fails with NoChannels, constructing nothing, exactly when the
\* channel collection is empty; otherwise it succeeds, keeps the channels in
\* order and the new Player's sample rate is 48000.
C7_NewNoChannelsIffEmpty ==
    last_op.name = "new" =>
        /\ last_op.result = "NoChannels" <=> last_op.channels = <<>>
        /\ last_op.result = "NoChannels" => ~player.live
        /\ last_op.result # "NoChannels" =>
              /\ last_op.result = "Ok"
              /\ player.live
              /\ player.channels = last_op.channels
              /\ player.sample_rate = 48000

C7_Witness ==
    /\ last_op.name = "new"
    /\ last_op.result = "Ok"
    /\ player.channels = <<"Const9", "Seconds">>

\* C8: every play issues backend.stop() and then backend.play(source), the sink
\* holding no renderer when play is issued, so the sink never holds more than
\* one renderer.
C8_AtMostOneRenderer ==
    /\ Len(backend.queue) <= 1
    /\ last_op.name = "play" =>
          /\ Len(backend.calls) = 2
          /\ backend.calls[1].call = "stop"
          /\ backend.calls[2].call = "play"
          /\ backend.calls[2].queued = 0

C8_Witness ==
    /\ last_op.name = "play"
    /\ Len(backend.calls) = 2
    /\ backend.calls[1] = [call |-> "stop", queued |-> 1]
    /\ Len(backend.queue) = 1
    /\ produced # <<>>

\* C9: a step that changes the Player's stored rate is a set_sample_rate, leaves
\* the backend (and the renderer it holds) and the channels untouched, and stores
\* the value given; a new Player has rate 48000; the renderer the next play
\* hands over has the stored rate, both cursors 0 and the window given.
C9_SetSampleRateFrame ==
    [][/\ (player.live /\ player'.live /\ player'.sample_rate # player.sample_rate) =>
             /\ last_op'.name = "set_sample_rate"
             /\ backend' = backend
             /\ handed' = handed
             /\ player'.channels = player.channels
       /\ last_op'.name = "set_sample_rate" => player'.sample_rate = last_op'.value
       /\ (last_op'.name = "new" /\ player'.live) => player'.sample_rate = 48000
       /\ (last_op'.name = "play" /\ produced' = <<>> /\ ~ended') =>
             backend'.queue =
                 <<[channels |-> player.channels, curr_channel |-> 0,
                    sample_rate |-> player.sample_rate, second_sample |-> 0,
                    start |-> last_op'.start, end |-> last_op'.end]>>
      ]_vars

C9_Witness ==
    /\ last_op.name = "set_sample_rate"
    /\ Len(backend.queue) = 1
    /\ produced # <<>>
    /\ Head(backend.queue).sample_rate = handed.sample_rate
    /\ handed.sample_rate >= 1
    /\ player.sample_rate # handed.sample_rate

\* C10: stop() on an idle backend changes neither the Player nor the (empty)
\* sink, and a play after any number of such stops hands the backend a renderer
\* yielding the same items as the renderer play builds from the Player as it
\* was before the stops.
C10_IdleStopHarmless ==
    [][/\ idle_stops' = idle_stops + 1 =>
             /\ last_op'.name = "stop"
             /\ player' = player
             /\ backend.queue = <<>>
             /\ backend'.queue = <<>>
       /\ (last_op'.name = "play" /\ last_op'.idle_stops > 0
             /\ produced' = <<>> /\ ~ended') =>
             /\ Len(backend'.queue) = 1
             /\ Drain(backend'.queue[1], MaxItems) =
                   Drain(NewSource(player, last_op'.start, last_op'.end), MaxItems)
      ]_vars

C10_Witness ==
    /\ last_op.name = "play"
    /\ last_op.idle_stops >= 2
    /\ Len(produced) >= 2

----------------------------------------------------------------------------
(* Claims about the Switch, checked under SwitchSpec *)

Thresholds(self) == {self.switching_steps[i][1] : i \in DOMAIN self.switching_steps}

\* the segment of the greatest threshold <= t, the initial segment if there is none
SegmentFor(self, t) ==
    LET below == {i \in DOMAIN self.switching_steps : FLe(self.switching_steps[i][1], t)}
    IN  IF below = {} THEN self.initial_step
        ELSE LET top == CHOOSE i \in below :
                            \A j \in below :
                                FLe(self.switching_steps[j][1], self.switching_steps[i][1])
             IN  self.switching_steps[top][2]

StrictlyIncreasing(steps) ==
    /\ \A i \in DOMAIN steps : ~is_nan(steps[i][1])
    /\ \A i \in DOMAIN steps : \A j \in DOMAIN steps :
          i < j => partial_cmp(steps[i][1], steps[j][1]) = "Less"

\* C2: for every non-NaN t, at(t) evaluates at t the segment of the greatest
\* threshold <= t, and the initial segment when no threshold is <= t.
C2_AtSelectsGreatestThresholdBelow ==
    /\ sw.live =>
          \A t \in QueryTimes :
              ~is_nan(t) => Switch_at(sw, t) = [seg |-> SegmentFor(sw, t), t |-> t]
    /\ (sw_call.op = "at" /\ ~is_nan(sw_call.at_seconds)) =>
          sw_call.out = [seg |-> SegmentFor(sw_call.pre, sw_call.at_seconds),
                         t |-> sw_call.at_seconds]

C2_Witness ==
    /\ sw_call.op = "at"
    /\ Len(sw.switching_steps) = 3
    /\ sw.initial_step = "X"
    /\ sw.switching_steps[1][2] = "Y"
    /\ sw.switching_steps[2][2] = "Z"
    /\ sw.switching_steps[3][2] = "X"
    /\ sw_call.at_seconds = sw.switching_steps[2][1]
    /\ sw_call.out.seg = "Z"

\* C3: after any sequence of try_step_at / step_at calls the threshold sequence
\* is strictly increasing and holds no NaN.
C3_ThresholdsStrictlyIncreasing ==
    /\ StrictlyIncreasing(sw.switching_steps)
    /\ StrictlyIncreasing(sw_call.steps_at_ret)

C3_Witness ==
    /\ sw_call.op = "try_step_at"
    /\ sw_call.result = "Ok"
    /\ Len(sw.switching_steps) = 3
    /\ sw.switching_steps[2][1] = sw_call.at_seconds
    /\ sw.switching_steps[3][1] = PosInf

\* C4: try_step_at with a non-NaN threshold returns Duplicated carrying that
\* threshold when it is already present, and succeeds when it is not.
C4_DuplicatedIffPresent ==
    (sw_call.op = "try_step_at" /\ ~is_nan(sw_call.at_seconds)) =>
        /\ sw_call.at_seconds \in Thresholds(sw_call.pre) =>
              /\ sw_call.result = "Duplicated"
              /\ sw_call.value = sw_call.at_seconds
        /\ sw_call.at_seconds \notin Thresholds(sw_call.pre) =>
              /\ sw_call.result = "Ok"
              /\ sw.live
              /\ Len(sw.switching_steps) = Len(sw_call.pre.switching_steps) + 1

C4_Witness ==
    /\ sw_call.op = "try_step_at"
    /\ sw_call.result = "Duplicated"
    /\ Len(sw_call.pre.switching_steps) = 3
    /\ sw_call.pre.switching_steps[1][1] = sw_call.at_seconds

\* C5: try_step_at with a NaN threshold returns the Nan error in every Switch
\* state, without having searched or modified the threshold set.
C5_NanRejectedFirst ==
    (sw_call.op = "try_step_at" /\ is_nan(sw_call.at_seconds)) =>
        /\ sw_call.result = "Nan"
        /\ ~sw_call.searched
        /\ sw_call.steps_at_ret = sw_call.pre.switching_steps

C5_Witness ==
    /\ sw_call.op = "try_step_at"
    /\ sw_call.result = "Nan"
    /\ Len(sw_call.pre.switching_steps) >= 2

\* C6: after try_step_at returns an error, the Switch the caller inserted into
\* still exists with its initial segment and its steps as before the call.
C6_FailedInsertionKeepsSwitch ==
    (sw_call.op = "try_step_at" /\ sw_call.result \in {"Nan", "Duplicated"}) =>
        /\ sw.live
        /\ sw = sw_call.pre

----------------------------------------------------------------------------
(* Claims about termination, checked under FairSpec *)

\* a number of items no renderer with this window and rate can exceed
ItemBound(r) ==
    Len(r.channels) * (r.sample_rate * (r.end.n + 1) + 1)

\* C11: a renderer built with N >= 1 channels and rate R >= 1 reaches None after
\* finitely many items; a wait() issued while such a renderer plays eventually
\* returns, and a wait() on an idle Player can return at once.
\* (The playback thread is enabled exactly when ConsumeEnabled says so.)
C11_WaitReturns ==
    /\ [](handed.sample_rate \in 1..MaxRate =>
             Len(Drain(handed, ItemBound(handed) + 1)) <= ItemBound(handed))
    /\ []((pc = "waiting" /\ backend.queue = <<>>) => ENABLED WaitReturn)
    /\ [](ConsumeEnabled <=> ENABLED <<Consume>>_vars)
    /\ (pc = "waiting" /\ handed.sample_rate \in 1..MaxRate) ~> (pc = "ready")

C11_Witness ==
    /\ last_op.name = "wait"
    /\ last_op.result = "returned"
    /\ ended
    /\ handed.sample_rate >= 1
    /\ Len(produced) >= 4

----------------------------------------------------------------------------
(* Claims about the renderer itself, checked under SourceSpec *)

\* C12: cloning a renderer in any reachable state yields a copy with channel
\* index 0 and intra-second index 0 and the original's channels, rate, start
\* and end, and leaves the original unchanged.
C12_CloneZeroesCursor ==
    src_last.op = "clone" =>
        /\ src_last.copy.curr_channel = 0
        /\ src_last.copy.second_sample = 0
        /\ src_last.copy.channels = src_last.before.channels
        /\ src_last.copy.sample_rate = src_last.before.sample_rate
        /\ src_last.copy.start = src_last.before.start
        /\ src_last.copy.end = src_last.before.end
        /\ sample_source = src_last.before

\* the last next() returned the last item of a frame and of a second
CarryStep ==
    /\ src_last.op = "next"
    /\ src_last.some
    /\ src_last.before.sample_rate >= 1
    /\ src_last.before.curr_channel + 1 >= Len(src_last.before.channels)
    /\ src_last.before.second_sample + 1 >= src_last.before.sample_rate

\* C14: a next() that brings the intra-second index to the sample rate resets
\* the index to 0 and adds exactly 1 to start, leaving the rate, the channels
\* and end unchanged.
C14_CarryResetsIndex ==
    CarryStep =>
        /\ sample_source.second_sample = 0
        /\ sample_source.start = FAdd(src_last.before.start, Fin(1, 1))
        /\ sample_source.sample_rate = src_last.before.sample_rate
        /\ sample_source.channels = src_last.before.channels
        /\ sample_source.end = src_last.before.end

\* C15: in every state of a renderer built by play with N >= 1 channels and
\* rate R >= 1, the channel index is in 0..N-1 and the intra-second index in
\* 0..R-1.
C15_CursorInRange ==
    src_made.sample_rate >= 1 =>
        /\ sample_source.curr_channel \in 0..(Len(src_made.channels) - 1)
        /\ sample_source.second_sample \in 0..(src_made.sample_rate - 1)

\* C16: once next() has returned None every later next() returns None, and a
\* next() returning None changes no field of the renderer.
C16_ExhaustionTerminal ==
    src_last.op = "next" =>
        /\ ~src_last.some => sample_source = src_last.before
        /\ src_nones > 0 => ~src_last.some
        /\ src_nones > 0 => ~SampleSource_next(sample_source).some

C16_Witness ==
    /\ src_last.op = "next"
    /\ src_nones = MaxNones
    /\ Len(src_items) >= 4
    /\ src_made.sample_rate >= 1

\* C17: sample_rate() and channels() of a renderer built with rate R >= 1 and N
\* channels return R and N after any number of next() calls.
C17_MetadataConstant ==
    src_made.sample_rate >= 1 =>
        /\ Source_sample_rate(sample_source) = src_made.sample_rate
        /\ Source_channels(sample_source) = Len(src_made.channels)

\* C18: while the channel index of a renderer built by play is not 0, next()
\* returns an item for the time of the item before it; so when None is
\* returned the number of items returned is a multiple of the channel count.
C18_NoMidFrameEnd ==
    /\ (src_made.channels # <<>> /\ sample_source.curr_channel # 0) =>
          /\ src_items # <<>>
          /\ SampleSource_next(sample_source).some
          /\ SampleSource_next(sample_source).data.t = src_items[Len(src_items)].t
    /\ src_nones > 0 => Len(src_items) % Len(src_made.channels) = 0

C18_Witness ==
    /\ Len(src_made.channels) = 2
    /\ src_nones > 0
    /\ Len(src_items) = 4
    /\ src_items[3].t = src_items[4].t
    /\ src_items[2].t # src_items[3].t

----------------------------------------------------------------------------
(* Claims about the combinators, checked under AlgebraSpec *)

\* C13: f.compose(g).at(t) is f.at(g.at(t)); f.with_speed(s).at(t) is
\* f.at(t*s); f.with_speed(1).at(t) is f.at(t).
C13_ComposeAndSpeed ==
    /\ fn_call.op = "compose" =>
          fn_call.out = At(fn_call.f, At(fn_call.g, fn_call.t))
    /\ fn_call.op = "with_speed" =>
          /\ fn_call.out = At(fn_call.f, FMul(fn_call.t, fn_call.speed))
          /\ fn_call.speed = Fin(1, 1) => fn_call.out = At(fn_call.f, fn_call.t)

C13_Witness ==
    /\ fn_call.op = "with_speed"
    /\ fn_call.f = with_speed(Leaf("Seconds"), Fin(2, 1))
    /\ fn_call.speed = Fin(3, 2)
    /\ fn_call.t = Fin(1, 2)
    /\ fn_call.out = Fin(3, 2)

----------------------------------------------------------------------------
(* Further claims about the Switch, checked under SwitchSpec *)

\* C19: a Switch with initial segment X and the single step (a, Y) evaluates,
\* at every t (t = a and NaN included), the segment X.step_at(a, Y) evaluates.
C19_SingleStepIsStepAt ==
    /\ (sw.live /\ Len(sw.switching_steps) = 1) =>
          \A t \in QueryTimes :
              Switch_at(sw, t) =
                  StepAt_at(sw.initial_step, sw.switching_steps[1][1],
                            sw.switching_steps[1][2], t)
    /\ (sw_call.op = "at" /\ Len(sw_call.pre.switching_steps) = 1) =>
          sw_call.out =
              StepAt_at(sw_call.pre.initial_step, sw_call.pre.switching_steps[1][1],
                        sw_call.pre.switching_steps[1][2], sw_call.at_seconds)

C19_Witness ==
    /\ sw_call.op = "at"
    /\ sw.switching_steps = <<<<Fin(1, 1), "Y">>>>
    /\ sw.initial_step = "X"
    /\ sw_call.at_seconds = Fin(1, 1)
    /\ sw_call.out.seg = "Y"

\* the outcome of inserting steps[p[1]], steps[p[2]], ... into self with
\* try_step_at: the Switch, and whether every insertion succeeded
RECURSIVE InsertAll(_, _, _, _)
InsertAll(self, steps, p, i) ==
    IF i > Len(steps) THEN [ok |-> TRUE, sw |-> self]
    ELSE LET r == Switch_try_step_at(self, steps[p[i]][1], steps[p[i]][2])
         IN  IF r.result = "Ok" THEN InsertAll(r.ret, steps, p, i + 1)
             ELSE [ok |-> FALSE, sw |-> r.ret]

\* C20: the steps of a Switch, inserted into a new Switch in any order, are all
\* accepted and give the same step sequence, of as many steps as insertions;
\* the Switch built is the same value, so at(t) is the same for every t.
\* (Stated where new or an insertion has just left the Switch; at() does not
\* change it.)
C20_InsertionOrderIndependent ==
    (sw.live /\ sw_call.op # "at") =>
        \A p \in Permutations(DOMAIN sw.switching_steps) :
            LET r == InsertAll(Switch_new(sw.initial_step), sw.switching_steps, p, 1)
            IN  /\ r.ok
                /\ r.sw.switching_steps = sw.switching_steps
                /\ Len(r.sw.switching_steps) = Len(sw.switching_steps)
                /\ r.sw = sw

C20_Witness ==
    /\ sw_call.op = "try_step_at"
    /\ sw_call.result = "Ok"
    /\ Len(sw.switching_steps) = 3
    /\ sw.switching_steps[1] = <<sw_call.at_seconds, sw_call.after>>
    /\ sw_call.pre.switching_steps[2][1] = PosInf

====
